---- MODULE Spec2Model ----
(***************************************************************************)
(* The progressive render orchestrator of ghostec/tracer-server.           *)
(*                                                                         *)
(* Two programs live in the repository, both `package main`:               *)
(*   src/unnamed/part_000  renderer with scene and gui frames, pointer     *)
(*                         commands and a websocket publisher  (Spec)      *)
(*   src/main.go           renderer with one frame, keyboard commands      *)
(*                         only, pull endpoint only          (SpecMainGo)  *)
(*                                                                         *)
(* The engine (github.com/ghostec/tracer) is external.  A frame is         *)
(* modelled by what was put into it: the set of passes merged or blended   *)
(* into it, each pass tagged with what it was rendered from.  A fresh      *)
(* frame is the empty set.                                                 *)
(***************************************************************************)
EXTENDS Integers, Sequences, FiniteSets, TLC

\* ------------------------------------------------------------------ bounds
\* Messages read by all connections together.
MaxMsgs == 2

\* Largest pixel column a pointer message names.
MaxPixel == 2

\* The connections (one ws handler invocation each).
Conns == {"c1", "c2"}

\* ------------------------------------------------------------- Go values
Nil == "nil"

Max(a, b) == IF a >= b THEN a ELSE b

\* Tasks, as lock holders and as panic sites.
Free == <<"free">>

Bg == <<"bg">>

Rd(c) == <<"rd", c>>

Pub(c) == <<"pub", c>>

Http == <<"http">>

NotCrashed == <<"running">>

\* A goroutine that panics without a recover ends the process.
PanicIn(task) == <<"panic">> \o task

VARIABLES
  mainpc,      \* main(): "loadScene", "start", "serving"
  crashed,     \* NotCrashed, or PanicIn(task) once the process has died
  mu,          \* renderer.mu: Free or the task holding it.  A critical
               \* section that makes no blocking call is one step: it
               \* needs mu = Free and leaves what its Unlock leaves.
  frameId,     \* renderer.frameId
  stop,        \* renderer.stop: the id of the channel it refers to
  closed,      \* ids of the channels that were closed
  chans,       \* number of channels made so far (ids are 1..chans)
  sceneFrame,  \* renderer.sceneFrame (renderer.frame in src/main.go)
  guiFrame,    \* renderer.guiFrame
  scene,       \* renderer.scene: Nil or "bvh"
  camera,      \* renderer.camera.LookFrom (lookFrom in src/main.go), in half units
  hovered,     \* renderer.hovered: Nil or a node
  selected,    \* renderer.selected: Nil or a node
  bgpc,        \* the background goroutine's position in render()
  bgl,         \* its locals: frameId, and the pass handed to the engine
  rdpc,        \* per connection: the reader's position in ws()
  rdl,         \* per connection: the reader's locals
  conn,        \* per connection: "none", "open", "peerClosed", "closed"
  pubpc,       \* per connection: the publisher goroutine's position
  publ,        \* per connection: the publisher's locals
  clk,         \* per connection: the publisher's times, where they are followed
  httppc,      \* the /frame.png handler's position
  httpl,       \* the /frame.png handler's locals
  msgs         \* messages read so far

vars ==
  <<mainpc, crashed, mu, frameId, stop, closed, chans, sceneFrame, guiFrame,
    scene, camera, hovered, selected, bgpc, bgl, rdpc, rdl, conn, pubpc, publ,
    clk, httppc, httpl, msgs>>

\* The renderer's fields.
rvars == <<frameId, stop, closed, chans, sceneFrame, guiFrame, scene, camera, hovered, selected>>

\* ----------------------------------------------------------------- frames
\* newFrame(): a zeroed frame.
newFrame == {}

\* Frame.Avg(frame): the pass becomes part of the accumulated image.
Avg(into, pass) == into \cup {pass}

\* Frame.Blend(other, 1.0, 1.0): what is in other becomes part of the frame.
Blend(into, other) == into \cup other

\* ----------------------------------------------------------- wire messages
\* A message is a string.  The strings the clients send, as the parts
\* that are joined with single spaces.
Parts ==
  { <<"1">>, <<"2">>, <<"3">>, <<"4">>,
    <<"mousemove", "0", "0">>, <<"mousemove", "1", "0">>, <<"mousemove", "2", "0">>,
    <<"mouseclick", "0", "0">>, <<"mouseclick", "1", "0">>, <<"mouseclick", "2", "0">>,
    <<"foo">>, <<"mousemove", "1">>, <<"mouseclick", "a", "0">>,
    <<"mousemove", "0", "b">>, <<"mousemoved", "0", "0">> }

RECURSIVE Join(_)
Join(parts) ==
  IF Len(parts) = 0 THEN ""
  ELSE IF Len(parts) = 1 THEN parts[1]
  ELSE parts[1] \o " " \o Join(Tail(parts))

Messages == {Join(p) : p \in Parts}

\* strings.Split(msg, " ")
Split(msg) == CHOOSE p \in Parts : Join(p) = msg

\* strings.HasPrefix(msg, prefix), for the two prefixes ws() tests
HasPrefix(msg, prefix) ==
  \E ext \in {"", "d"}, p \in Parts :
    msg = Join(<<prefix \o ext>> \o Tail(p))

\* strconv.Atoi on one part
Atoi(part) ==
  IF \E n \in 0..MaxPixel : ToString(n) = part
  THEN [err |-> FALSE, val |-> CHOOSE n \in 0..MaxPixel : ToString(n) = part]
  ELSE [err |-> TRUE, val |-> 0]

\* ------------------------------------------------------------ the engine
\* HitRecord of scene.Hit(camera.GetRay(CameraCoordinatesFromPixel(y, x, w, h))):
\* the scene shows node "o1" in the column the camera looks at and "o2" in
\* the one right of it.
NoHit == [Hit |-> FALSE, BVHNode |-> Nil]

Hit(cam, x, y) ==
  LET col == x - cam.x IN
  IF y = 0 /\ col = 0 THEN [Hit |-> TRUE, BVHNode |-> "o1"]
  ELSE IF y = 0 /\ col = 1 THEN [Hit |-> TRUE, BVHNode |-> "o2"]
  ELSE NoHit

\* The camera loadScene installs: LookFrom {-0, 2, 1}.
LoadedCamera == [x |-> 0, z |-> 2]

\* The zero value of tracer.Camera.
ZeroCamera == [x |-> 0, z |-> 0]

\* ------------------------------------------------------------------ locals
\* No pass handed to the engine: no channel has the id 0.
NoPass == [epoch |-> 0, cam |-> [x |-> 0, z |-> 0], sig |-> 0]

BgL0 == [frameId |-> 0, pass |-> NoPass]

RdL0 == [msg |-> "", x |-> 0, y |-> 0, hr |-> NoHit, frameId |-> 0, guiFrame |-> newFrame]

PubL0 == [frame |-> newFrame]

Clk0 == [elapsed |-> 0, gap |-> 0]

HttpL0 == [frame |-> newFrame]

\* newRenderer() and the start of main()
Init ==
  /\ mainpc = "loadScene"
  /\ crashed = NotCrashed
  /\ mu = Free
  /\ frameId = 0
  /\ stop = 1
  /\ closed = {}
  /\ chans = 1
  /\ sceneFrame = newFrame
  /\ guiFrame = newFrame
  /\ scene = Nil
  /\ camera = ZeroCamera
  /\ hovered = Nil
  /\ selected = Nil
  /\ bgpc = "idle"
  /\ bgl = BgL0
  /\ rdpc = [c \in Conns |-> "idle"]
  /\ rdl = [c \in Conns |-> RdL0]
  /\ conn = [c \in Conns |-> "none"]
  /\ pubpc = [c \in Conns |-> "idle"]
  /\ publ = [c \in Conns |-> PubL0]
  /\ clk = [c \in Conns |-> Clk0]
  /\ httppc = "idle"
  /\ httpl = HttpL0
  /\ msgs = 0

Alive == crashed = NotCrashed

Serving == Alive /\ mainpc = "serving"

\* ------------------------------------------------------------------- main
\* main() drops the error loadScene returns and goes on.
AfterLoadScene(err) == "start"

\* loadScene(): tracer.NewBVHNode succeeds; scene and camera are installed.
LoadSceneOk ==
  /\ Alive /\ mainpc = "loadScene"
  /\ scene' = "bvh"
  /\ camera' = LoadedCamera
  /\ mainpc' = AfterLoadScene(FALSE)
  /\ UNCHANGED <<crashed, mu, frameId, stop, closed, chans, sceneFrame, guiFrame,
                 hovered, selected, bgpc, bgl, rdpc, rdl, conn, pubpc, publ, clk,
                 httppc, httpl, msgs>>

\* loadScene(): tracer.NewBVHNode fails; loadScene returns the error and
\* leaves scene and camera at their zero values.
LoadSceneErr ==
  /\ Alive /\ mainpc = "loadScene"
  /\ mainpc' = AfterLoadScene(TRUE)
  /\ UNCHANGED <<crashed, mu, rvars, bgpc, bgl, rdpc, rdl, conn, pubpc, publ, clk,
                 httppc, httpl, msgs>>

\* main(): the handlers are registered, the render loop is started and
\* ListenAndServe accepts connections.
MainServe ==
  /\ Alive /\ mainpc = "start"
  /\ mainpc' = "serving"
  /\ bgpc' = "render"
  /\ UNCHANGED <<crashed, mu, rvars, bgl, rdpc, rdl, conn, pubpc, publ, clk,
                 httppc, httpl, msgs>>

\* ------------------------------------------------- renderer.render (loop)
\* r.mu.Lock(); frameId := r.frameId; r.mu.Unlock()
CaptureUnlockMissing == Bg

CaptureUnlock == Free

RenderCapture ==
  /\ Alive /\ bgpc = "render" /\ mu = Free
  /\ bgl' = [bgl EXCEPT !.frameId = frameId]
  /\ mu' = CaptureUnlock
  /\ bgpc' = "call"
  /\ UNCHANGED <<mainpc, crashed, rvars, rdpc, rdl, conn, pubpc, publ, clk,
                 httppc, httpl, msgs>>

\* The argument r.stop of tracer.Render: the field as it is at the call.
PassSignalFirst(live) == 1

PassSignal(live) == live

\* tracer.Render(RenderSettings{Camera: r.camera, Hitter: r.scene, ...}, r.stop):
\* the arguments are read here, with the lock released.  A nil Hitter makes
\* the engine panic in the render goroutine.
RenderCall ==
  /\ Alive /\ bgpc = "call"
  /\ IF scene = Nil
     THEN /\ crashed' = PanicIn(Bg)
          /\ UNCHANGED <<bgl, bgpc>>
     ELSE /\ bgl' = [bgl EXCEPT !.pass = [epoch |-> bgl.frameId, cam |-> camera,
                                          sig |-> PassSignal(stop)]]
          /\ bgpc' = "rendering"
          /\ UNCHANGED crashed
  /\ UNCHANGED <<mainpc, mu, rvars, rdpc, rdl, conn, pubpc, publ, clk, httppc, httpl, msgs>>

\* if r.frameId == frameId
MergeGuardAlways(captured) == TRUE

MergeGuard(captured) == frameId = captured

\* the deferred r.mu.Unlock() of render()
RenderUnlockMissing == Bg

RenderUnlock == Free

\* tracer.Render returns (the pass is finished, or its stop channel was
\* closed and the engine gave up early); r.mu.Lock();
\* if r.frameId == frameId { r.sceneFrame.Avg(frame) }; deferred Unlock; the
\* loop of main() calls render() again.
RenderMerge ==
  /\ Alive /\ bgpc = "rendering" /\ mu = Free
  /\ sceneFrame' = IF MergeGuard(bgl.frameId)
                   THEN Avg(sceneFrame, [epoch |-> bgl.pass.epoch, cam |-> bgl.pass.cam])
                   ELSE sceneFrame
  /\ mu' = RenderUnlock
  /\ bgl' = BgL0
  /\ bgpc' = "render"
  /\ UNCHANGED <<mainpc, crashed, frameId, stop, closed, chans, guiFrame, scene,
                 camera, hovered, selected, rdpc, rdl, conn, pubpc, publ, clk,
                 httppc, httpl, msgs>>

render == RenderCapture \/ RenderCall \/ RenderMerge

\* ------------------------------------------------------------ connections
\* ws(): the upgrade succeeds; the publisher goroutine is started and the
\* handler enters its read loop.
Upgrade(c) ==
  /\ Serving /\ conn[c] = "none"
  /\ conn' = [conn EXCEPT ![c] = "open"]
  /\ rdpc' = [rdpc EXCEPT ![c] = "read"]
  /\ pubpc' = [pubpc EXCEPT ![c] = "Encode"]
  /\ UNCHANGED <<mainpc, crashed, mu, rvars, bgpc, bgl, rdl, publ, clk, httppc, httpl, msgs>>

\* The client goes away.
PeerClose(c) ==
  /\ Serving /\ conn[c] = "open"
  /\ conn' = [conn EXCEPT ![c] = "peerClosed"]
  /\ UNCHANGED <<mainpc, crashed, mu, rvars, bgpc, bgl, rdpc, rdl, pubpc, publ, clk,
                 httppc, httpl, msgs>>

\* The switch of ws(): where the handler goes with a message.
\*   "pan"        cases "1".."4": the camera statement, then reset()
\*   "mousemove"  a well-formed pointer move
\*   "mouseclick" a well-formed pointer click
\*   "continue"   everything else
Switch(msg) ==
  IF msg \in {"1", "2", "3", "4"} THEN "pan"
  ELSE IF HasPrefix(msg, "mousemove") \/ HasPrefix(msg, "mouseclick")
  THEN LET parts == Split(msg) IN
       IF Len(parts) # 3 THEN "continue"
       ELSE IF Atoi(parts[2]).err THEN "continue"
       ELSE IF Atoi(parts[3]).err THEN "continue"
       ELSE IF parts[1] = "mousemove" THEN "mousemove"
       ELSE IF parts[1] = "mouseclick" THEN "mouseclick"
       ELSE "continue"
  ELSE "continue"

\* Switch and Split on every message, computed once.
SwitchOf == [msg \in Messages |-> Switch(msg)]

SplitOf == [msg \in Messages |-> Split(msg)]

\* c.ReadMessage() returns one of the messages `sent`; the switch picks its
\* case.
Read(c, sent) ==
  /\ Serving /\ rdpc[c] = "read" /\ conn[c] = "open" /\ msgs < MaxMsgs
  /\ \E msg \in sent :
       LET to == SwitchOf[msg]
           parts == SplitOf[msg] IN
       /\ rdpc' = [rdpc EXCEPT ![c] = to]
       /\ rdl' = [rdl EXCEPT ![c] =
                    IF to \in {"mousemove", "mouseclick"}
                    THEN [RdL0 EXCEPT !.msg = msg, !.x = Atoi(parts[2]).val, !.y = Atoi(parts[3]).val]
                    ELSE [RdL0 EXCEPT !.msg = msg]]
  /\ msgs' = msgs + 1
  /\ UNCHANGED <<mainpc, crashed, mu, rvars, bgpc, bgl, conn, pubpc, publ, clk, httppc, httpl>>

\* A client that uses the page: keys and the pointer, and what a broken
\* client may send.
ReadMessage(c) == Read(c, Messages)

\* A client that only presses keys.
KeyMessages == {"1", "2", "3", "4", "foo"}

ReadKey(c) == Read(c, KeyMessages)

\* The client moves forward or to the right, or sends something else.
LiveMessages == {"1", "4", "foo"}

ReadLive(c) == Read(c, LiveMessages)

\* c.ReadMessage() returns an error: break, and the deferred c.Close().
ReadError(c) ==
  /\ Serving /\ rdpc[c] = "read" /\ conn[c] = "peerClosed"
  /\ rdpc' = [rdpc EXCEPT ![c] = "done"]
  /\ conn' = [conn EXCEPT ![c] = "closed"]
  /\ UNCHANGED <<mainpc, crashed, mu, rvars, bgpc, bgl, rdl, pubpc, publ, clk, httppc, httpl, msgs>>

\* `continue`: back to c.ReadMessage().
Continue(c) ==
  /\ Serving /\ rdpc[c] = "continue"
  /\ rdpc' = [rdpc EXCEPT ![c] = "read"]
  /\ rdl' = [rdl EXCEPT ![c] = RdL0]
  /\ UNCHANGED <<mainpc, crashed, mu, rvars, bgpc, bgl, conn, pubpc, publ, clk, httppc, httpl, msgs>>

\* rendererObj.camera.LookFrom[i] -= 0.5 / += 0.5 (half units)
Pan(cam, msg) ==
  IF msg = "1" THEN [cam EXCEPT !.z = @ - 1]
  ELSE IF msg = "2" THEN [cam EXCEPT !.z = @ + 1]
  ELSE IF msg = "3" THEN [cam EXCEPT !.x = @ - 1]
  ELSE [cam EXCEPT !.x = @ + 1]

\* The camera statement of cases "1".."4"; the lock is not taken.
PanCamera(c) ==
  /\ Serving /\ rdpc[c] = "pan"
  /\ camera' = Pan(camera, rdl[c].msg)
  /\ rdpc' = [rdpc EXCEPT ![c] = "reset"]
  /\ UNCHANGED <<mainpc, crashed, mu, frameId, stop, closed, chans, sceneFrame, guiFrame,
                 scene, hovered, selected, bgpc, bgl, rdl, conn, pubpc, publ, clk,
                 httppc, httpl, msgs>>

\* The handler's goroutine panics: net/http recovers, the deferred c.Close()
\* has run, the handler is gone.
HandlerPanics(c) ==
  /\ rdpc' = [rdpc EXCEPT ![c] = "done"]
  /\ conn' = [conn EXCEPT ![c] = "closed"]

\* --------------------------------------------------------- renderer.reset
\* r.frameId += 1
ResetFrameIdTwice(id) == id + 2

ResetFrameId(id) == id + 1

\* r.guiFrame = newFrame()
ResetGuiFrameKept(old) == old

ResetGuiFrame(old) == newFrame

\* r.stop = make(chan bool, 1): `made` channels exist, the new one is the next.
ResetStopKept(old, made) == old

ResetStop(old, made) == made + 1

\* r.mu.Lock(); close(r.stop); r.stop = make(chan bool, 1);
\* r.sceneFrame = newFrame(); r.guiFrame = newFrame(); r.frameId += 1;
\* r.mu.Unlock(); ws() reads the next message.  Closing a closed channel
\* panics with the lock held.
Reset(c) ==
  /\ Serving /\ rdpc[c] = "reset" /\ mu = Free
  /\ IF stop \in closed
     THEN /\ HandlerPanics(c)
          /\ mu' = Rd(c)
          /\ UNCHANGED <<rvars, rdl>>
     ELSE /\ closed' = closed \cup {stop}
          /\ stop' = ResetStop(stop, chans)
          /\ chans' = chans + 1
          /\ sceneFrame' = newFrame
          /\ guiFrame' = ResetGuiFrame(guiFrame)
          /\ frameId' = ResetFrameId(frameId)
          /\ rdpc' = [rdpc EXCEPT ![c] = "read"]
          /\ rdl' = [rdl EXCEPT ![c] = RdL0]
          /\ UNCHANGED <<mu, scene, camera, hovered, selected, conn>>
  /\ UNCHANGED <<mainpc, crashed, bgpc, bgl, pubpc, publ, clk, httppc, httpl, msgs>>

\* ------------------------------------- renderer.mousemove / mouseclick
\* hr := r.scene.Hit(r.camera.GetRay(...)): scene and camera are read with
\* the lock released.  A nil scene makes the call panic.
HitTest(c, at, to) ==
  /\ Serving /\ rdpc[c] = at
  /\ IF scene = Nil
     THEN /\ HandlerPanics(c)
          /\ UNCHANGED rdl
     ELSE /\ rdl' = [rdl EXCEPT ![c].hr = Hit(camera, rdl[c].x, rdl[c].y),
                                 ![c].x = 0, ![c].y = 0]
          /\ rdpc' = [rdpc EXCEPT ![c] = to]
          /\ UNCHANGED conn
  /\ UNCHANGED <<mainpc, crashed, mu, rvars, bgpc, bgl, pubpc, publ, clk, httppc, httpl, msgs>>

\* switch hr.Hit { case true: r.hovered = &hr.BVHNode; case false: r.hovered = nil }
\* (r.selected in mouseclick)
HandleKeptOnMiss(hr, old) == IF hr.Hit THEN hr.BVHNode ELSE old

Handle(hr, old) == IF hr.Hit THEN hr.BVHNode ELSE Nil

MousemoveHit(c) == HitTest(c, "mousemove", "mousemoveSet")

\* r.mu.Lock(); the switch of mousemove; r.mu.Unlock(); renderGUI() is next
MousemoveSet(c) ==
  /\ Serving /\ rdpc[c] = "mousemoveSet" /\ mu = Free
  /\ hovered' = Handle(rdl[c].hr, hovered)
  /\ rdpc' = [rdpc EXCEPT ![c] = "renderGUI"]
  /\ UNCHANGED <<mainpc, crashed, mu, frameId, stop, closed, chans, sceneFrame, guiFrame,
                 scene, camera, selected, bgpc, bgl, rdl, conn, pubpc, publ, clk,
                 httppc, httpl, msgs>>

MouseclickHit(c) == HitTest(c, "mouseclick", "mouseclickSet")

\* r.mu.Lock(); the switch of mouseclick; r.mu.Unlock(); renderGUI() is next
MouseclickSet(c) ==
  /\ Serving /\ rdpc[c] = "mouseclickSet" /\ mu = Free
  /\ selected' = Handle(rdl[c].hr, selected)
  /\ rdpc' = [rdpc EXCEPT ![c] = "renderGUI"]
  /\ UNCHANGED <<mainpc, crashed, mu, frameId, stop, closed, chans, sceneFrame, guiFrame,
                 scene, camera, hovered, bgpc, bgl, rdl, conn, pubpc, publ, clk,
                 httppc, httpl, msgs>>

\* ----------------------------------------------------- renderer.renderGUI
\* r.mu.Lock(); frameId := r.frameId; r.mu.Unlock(); guiFrame := newFrame()
GuiCapture(c) ==
  /\ Serving /\ rdpc[c] = "renderGUI" /\ mu = Free
  /\ rdl' = [rdl EXCEPT ![c].frameId = frameId, ![c].guiFrame = newFrame]
  /\ rdpc' = [rdpc EXCEPT ![c] = "guiHovered"]
  /\ UNCHANGED <<mainpc, crashed, mu, rvars, bgpc, bgl, conn, pubpc, publ, clk, httppc, httpl, msgs>>

\* if r.hovered != nil / if r.selected != nil, read with the lock released
GuiCheck(c, handle, at, then, else) ==
  /\ Serving /\ rdpc[c] = at
  /\ rdpc' = [rdpc EXCEPT ![c] = IF handle # Nil THEN then ELSE else]
  /\ UNCHANGED <<mainpc, crashed, mu, rvars, bgpc, bgl, rdl, conn, pubpc, publ, clk,
                 httppc, httpl, msgs>>

\* The edges of one node as ToEdgesFrame colours them: NewBVHNode of
\* handle.Left, tracer.Render with r.camera and r.stop into edgesFrame,
\* ToEdgesFrame(edgesFrame, color).
Edges(c, handle, color) ==
  {[epoch |-> rdl[c].frameId, color |-> color, node |-> handle, cam |-> camera]}

\* The body of `if r.hovered != nil` / `if r.selected != nil`: the field is
\* read again (handle.Left), with the lock released; if it has become nil
\* the dereference panics.  Otherwise guiFrame.Blend(edgesFrame, 1.0, 1.0).
GuiRender(c, handle, color, at, to) ==
  /\ Serving /\ rdpc[c] = at
  /\ IF handle = Nil
     THEN /\ HandlerPanics(c)
          /\ UNCHANGED rdl
     ELSE /\ rdl' = [rdl EXCEPT ![c].guiFrame = Blend(@, Edges(c, handle, color))]
          /\ rdpc' = [rdpc EXCEPT ![c] = to]
          /\ UNCHANGED conn
  /\ UNCHANGED <<mainpc, crashed, mu, rvars, bgpc, bgl, pubpc, publ, clk, httppc, httpl, msgs>>

GuiHovered(c) == GuiCheck(c, hovered, "guiHovered", "guiHoveredEdges", "guiSelected")

GuiHoveredEdges(c) == GuiRender(c, hovered, "yellow", "guiHoveredEdges", "guiSelected")

GuiSelected(c) == GuiCheck(c, selected, "guiSelected", "guiSelectedEdges", "guiInstall")

GuiSelectedEdges(c) == GuiRender(c, selected, "red", "guiSelectedEdges", "guiInstall")

\* if r.frameId == frameId (renderGUI)
GuiGuardAlways(captured) == TRUE

GuiGuardInverted(captured) == frameId # captured

GuiGuard(captured) == frameId = captured

\* After mousemove / mouseclick return: `fallthrough` into `default: continue`.
AfterPointerReset == "reset"

AfterPointer == "continue"

\* r.mu.Lock(); if r.frameId == frameId { r.guiFrame = guiFrame }; deferred
\* Unlock; renderGUI and the pointer method return to ws().
GuiInstall(c) ==
  /\ Serving /\ rdpc[c] = "guiInstall" /\ mu = Free
  /\ guiFrame' = IF GuiGuard(rdl[c].frameId) THEN rdl[c].guiFrame ELSE guiFrame
  /\ rdpc' = [rdpc EXCEPT ![c] = AfterPointer]
  /\ rdl' = [rdl EXCEPT ![c].guiFrame = newFrame, ![c].hr = NoHit, ![c].frameId = 0]
  /\ UNCHANGED <<mainpc, crashed, mu, frameId, stop, closed, chans, sceneFrame, scene,
                 camera, hovered, selected, bgpc, bgl, conn, pubpc, publ, clk,
                 httppc, httpl, msgs>>

\* -------------------------------------------------------- renderer.Encode
\* frame := newFrame(); r.mu.Lock(); frame.Blend(r.guiFrame, 1.0, 1.0);
\* frame.Blend(r.sceneFrame, 1.0, 1.0); r.mu.Unlock()
Compose(gui, base) == Blend(Blend(newFrame, gui), base)

\* ------------------------------------------- ws(): the publisher goroutine
\* The interval of the publisher, in milliseconds.
TargetMs == 200

\* time.Millisecond, in the model's unit of time (microseconds).
Millisecond == 1000

\* What time.Now().Sub(start) can be after Encode and WriteMessage (us).
Elapsed == {50900, 199999, 250500}

\* How much longer than asked time.Sleep can sleep (us).
Oversleep == {0, 700}

\* start := time.Now(); Encode(buf) up to its Unlock
PubEncodeStep(c) ==
  /\ Alive /\ pubpc[c] = "Encode" /\ mu = Free
  /\ publ' = [publ EXCEPT ![c].frame = Compose(guiFrame, sceneFrame)]
  /\ pubpc' = [pubpc EXCEPT ![c] = "write"]
  /\ UNCHANGED <<mainpc, crashed, mu, rvars, bgpc, bgl, rdpc, rdl, conn, httppc, httpl, msgs>>

\* png.Encode into buf, then c.WriteMessage: it succeeds on an open
\* connection, may still succeed once the peer is gone, and fails on a
\* closed one.  Then elapsed, toSleep and time.Sleep, and the next round.
PubWriteStep(c) ==
  /\ Alive /\ pubpc[c] = "write" /\ conn[c] \in {"open", "peerClosed"}
  /\ publ' = [publ EXCEPT ![c].frame = newFrame]
  /\ pubpc' = [pubpc EXCEPT ![c] = "Encode"]
  /\ UNCHANGED <<mainpc, crashed, mu, rvars, bgpc, bgl, rdpc, rdl, conn, httppc, httpl, msgs>>

\* c.WriteMessage returns an error: panic(err), in a goroutine of its own,
\* which ends the process.
PubWriteError(c) ==
  /\ Alive /\ pubpc[c] = "write" /\ conn[c] \in {"peerClosed", "closed"}
  /\ crashed' = PanicIn(Pub(c))
  /\ UNCHANGED <<mainpc, mu, rvars, bgpc, bgl, rdpc, rdl, conn, pubpc, publ, clk,
                 httppc, httpl, msgs>>

\* The publisher with its times left out.
PubEncode(c) == PubEncodeStep(c) /\ UNCHANGED clk

PubWrite(c) == PubWriteStep(c) /\ UNCHANGED clk

\* toSleep := math.Max(0.0, float64(200 - elapsed.Milliseconds())), in ms;
\* Duration.Milliseconds() truncates.
ToSleepRounded(elapsed) == Max(0, TargetMs - ((elapsed + Millisecond \div 2) \div Millisecond))

ToSleep(elapsed) == Max(0, TargetMs - (elapsed \div Millisecond))

\* The publisher with its times.  start := time.Now(): a round begins.
TimedEncode(c) == PubEncodeStep(c) /\ clk' = [clk EXCEPT ![c] = Clk0]

\* ... elapsed := time.Now().Sub(start); toSleep;
\* time.Sleep(time.Duration(toSleep) * time.Millisecond), which sleeps that
\* long or longer.  gap: the time from the start of this round to the
\* start of the next.
TimedWrite(c) ==
  /\ PubWriteStep(c)
  /\ \E e \in Elapsed, over \in Oversleep :
       clk' = [clk EXCEPT ![c] = [elapsed |-> e,
                                  gap |-> e + ToSleep(e) * Millisecond + over]]

\* ----------------------------------------------------- frame (/frame.png)
\* A request for /frame.png arrives.
FrameRequest ==
  /\ Serving /\ httppc = "idle"
  /\ httppc' = "Encode"
  /\ UNCHANGED <<mainpc, crashed, mu, rvars, bgpc, bgl, rdpc, rdl, conn, pubpc, publ, clk,
                 httpl, msgs>>

\* Encode(w) up to its Unlock
FrameEncode ==
  /\ Alive /\ httppc = "Encode" /\ mu = Free
  /\ httpl' = [httpl EXCEPT !.frame = Compose(guiFrame, sceneFrame)]
  /\ httppc' = "write"
  /\ UNCHANGED <<mainpc, crashed, mu, rvars, bgpc, bgl, rdpc, rdl, conn, pubpc, publ, clk, msgs>>

\* png.Encode(w, tracer.NewPPM(frame)); the handler returns.
FrameWrite ==
  /\ Alive /\ httppc = "write"
  /\ httpl' = HttpL0
  /\ httppc' = "idle"
  /\ UNCHANGED <<mainpc, crashed, mu, rvars, bgpc, bgl, rdpc, rdl, conn, pubpc, publ, clk, msgs>>

\* ----------------------------------------------------------- the program
keys(c) == PanCamera(c) \/ Reset(c) \/ Continue(c)

pointer(c) ==
  \/ MousemoveHit(c) \/ MousemoveSet(c) \/ MouseclickHit(c) \/ MouseclickSet(c)
  \/ GuiCapture(c) \/ GuiHovered(c) \/ GuiHoveredEdges(c)
  \/ GuiSelected(c) \/ GuiSelectedEdges(c) \/ GuiInstall(c)

publish(c) == PubEncode(c) \/ PubWrite(c) \/ PubWriteError(c)

frame == FrameRequest \/ FrameEncode \/ FrameWrite

\* src/unnamed/part_000 with two clients that use the page and stay.  The
\* scene loads, nobody asks for /frame.png, the publishers' times are left
\* out.
Next ==
  \/ LoadSceneOk \/ MainServe
  \/ render
  \/ \E c \in Conns : Upgrade(c) \/ ReadMessage(c) \/ keys(c) \/ pointer(c) \/ publish(c)

Spec == Init /\ [][Next]_vars

\* src/unnamed/part_000 with two clients that press keys and may go away,
\* and a scene that may fail to load.
NextFail ==
  \/ LoadSceneOk \/ LoadSceneErr \/ MainServe
  \/ render
  \/ \E c \in Conns : Upgrade(c) \/ ReadKey(c) \/ ReadError(c) \/ keys(c) \/ publish(c) \/ PeerClose(c)

SpecFail == Init /\ [][NextFail]_vars

\* src/unnamed/part_000 with two clients that press keys and stay, the
\* publishers' times followed.
NextStream ==
  \/ LoadSceneOk \/ MainServe
  \/ render
  \/ \E c \in Conns : Upgrade(c) \/ ReadKey(c) \/ keys(c) \/ TimedEncode(c) \/ TimedWrite(c)

SpecStream == Init /\ [][NextStream]_vars

\* src/unnamed/part_000 with two clients that press two of the keys and
\* stay, under fair scheduling.  The Go scheduler runs every runnable goroutine, an
\* engine call returns, a write on an open connection returns: weak
\* fairness of the steps that take no lock.  sync.Mutex hands the lock to
\* a goroutine that has waited for a millisecond (starvation mode), so a
\* goroutine that finds the lock free again and again gets it: strong
\* fairness of the steps that take the lock.  What the clients do (connect,
\* send) is under no fairness.
NextLive ==
  \/ LoadSceneOk \/ MainServe
  \/ render
  \/ \E c \in Conns : Upgrade(c) \/ ReadLive(c) \/ keys(c) \/ PubEncode(c) \/ PubWrite(c)

Fairness ==
  /\ WF_vars(LoadSceneOk) /\ WF_vars(MainServe)
  /\ SF_vars(RenderCapture) /\ WF_vars(RenderCall) /\ SF_vars(RenderMerge)
  /\ \A c \in Conns :
       /\ WF_vars(PanCamera(c)) /\ SF_vars(Reset(c)) /\ WF_vars(Continue(c))
       /\ SF_vars(PubEncode(c)) /\ WF_vars(PubWrite(c))

SpecLive == Init /\ [][NextLive]_vars /\ Fairness

\* --------------------------------------------------------------- src/main.go
\* The program of src/main.go: renderer has one frame (sceneFrame here), the
\* camera position is the global lookFrom (camera here), the scene is built
\* inside render(), and the image is pulled from /frame.png.
\* var lookFrom = tracer.Point3{-0, 2, 1}; var rendererObj = newRenderer()
InitMainGo ==
  /\ mainpc = "start"
  /\ crashed = NotCrashed
  /\ mu = Free
  /\ frameId = 0
  /\ stop = 1 /\ closed = {} /\ chans = 1
  /\ sceneFrame = newFrame /\ guiFrame = newFrame
  /\ scene = Nil
  /\ camera = LoadedCamera
  /\ hovered = Nil /\ selected = Nil
  /\ bgpc = "idle" /\ bgl = BgL0
  /\ rdpc = [c \in Conns |-> "idle"]
  /\ rdl = [c \in Conns |-> RdL0]
  /\ conn = [c \in Conns |-> "none"]
  /\ pubpc = [c \in Conns |-> "idle"]
  /\ publ = [c \in Conns |-> PubL0]
  /\ clk = [c \in Conns |-> Clk0]
  /\ httppc = "idle" /\ httpl = HttpL0
  /\ msgs = 0

\* What src/main.go never touches.
unusedMainGo == <<crashed, guiFrame, scene, hovered, selected, pubpc, publ, clk>>

\* main(): go func() { for { rendererObj.render() } }(); ListenAndServe
MainGoServe ==
  /\ mainpc = "start"
  /\ mainpc' = "serving"
  /\ bgpc' = "render"
  /\ UNCHANGED <<mu, frameId, stop, closed, chans, sceneFrame, camera, bgl, rdpc, rdl,
                 conn, httppc, httpl, msgs, unusedMainGo>>

\* render(): r.mu.Lock(); frameId := r.frameId; r.mu.Unlock()
MainGoRenderCapture ==
  /\ bgpc = "render" /\ mu = Free
  /\ bgl' = [bgl EXCEPT !.frameId = frameId]
  /\ bgpc' = "call"
  /\ UNCHANGED <<mainpc, mu, frameId, stop, closed, chans, sceneFrame, camera, rdpc, rdl,
                 conn, httppc, httpl, msgs, unusedMainGo>>

\* render(frame, lookFrom, r.stop): the arguments are read with the lock
\* released.
MainGoRenderCall ==
  /\ bgpc = "call"
  /\ bgl' = [bgl EXCEPT !.pass = [epoch |-> bgl.frameId, cam |-> camera, sig |-> stop]]
  /\ bgpc' = "rendering"
  /\ UNCHANGED <<mainpc, mu, frameId, stop, closed, chans, sceneFrame, camera, rdpc, rdl,
                 conn, httppc, httpl, msgs, unusedMainGo>>

\* render returns; r.mu.Lock(); if r.frameId == frameId { r.frame.Avg(frame) };
\* deferred Unlock
MainGoRenderMerge ==
  /\ bgpc = "rendering" /\ mu = Free
  /\ sceneFrame' = IF frameId = bgl.frameId
                   THEN Avg(sceneFrame, [epoch |-> bgl.pass.epoch, cam |-> bgl.pass.cam])
                   ELSE sceneFrame
  /\ bgl' = BgL0
  /\ bgpc' = "render"
  /\ UNCHANGED <<mainpc, mu, frameId, stop, closed, chans, camera, rdpc, rdl,
                 conn, httppc, httpl, msgs, unusedMainGo>>

\* ws(): upgrader.Upgrade succeeds; defer c.Close()
MainGoUpgrade(c) ==
  /\ mainpc = "serving" /\ conn[c] = "none"
  /\ conn' = [conn EXCEPT ![c] = "open"]
  /\ rdpc' = [rdpc EXCEPT ![c] = "read"]
  /\ UNCHANGED <<mainpc, mu, frameId, stop, closed, chans, sceneFrame, camera, bgpc, bgl,
                 rdl, httppc, httpl, msgs, unusedMainGo>>

\* c.ReadMessage() returns a message.
MainGoRead(c) ==
  /\ rdpc[c] = "read" /\ conn[c] = "open" /\ msgs < MaxMsgs
  /\ \E msg \in Messages : rdl' = [rdl EXCEPT ![c] = [RdL0 EXCEPT !.msg = msg]]
  /\ rdpc' = [rdpc EXCEPT ![c] = "switch"]
  /\ msgs' = msgs + 1
  /\ UNCHANGED <<mainpc, mu, frameId, stop, closed, chans, sceneFrame, camera, bgpc, bgl,
                 conn, httppc, httpl, unusedMainGo>>

\* The client goes away.
MainGoPeerClose(c) ==
  /\ conn[c] = "open"
  /\ conn' = [conn EXCEPT ![c] = "peerClosed"]
  /\ UNCHANGED <<mainpc, mu, frameId, stop, closed, chans, sceneFrame, camera, bgpc, bgl,
                 rdpc, rdl, httppc, httpl, msgs, unusedMainGo>>

\* c.ReadMessage() returns an error: break, and the deferred c.Close().
MainGoReadError(c) ==
  /\ rdpc[c] = "read" /\ conn[c] = "peerClosed"
  /\ rdpc' = [rdpc EXCEPT ![c] = "done"]
  /\ conn' = [conn EXCEPT ![c] = "closed"]
  /\ UNCHANGED <<mainpc, mu, frameId, stop, closed, chans, sceneFrame, camera, bgpc, bgl,
                 rdl, httppc, httpl, msgs, unusedMainGo>>

\* switch string(message): cases "1".."4" change lookFrom, without the
\* lock; the switch has no default, and every message goes on to reset().
MainGoSwitch(c) ==
  /\ rdpc[c] = "switch"
  /\ camera' = IF rdl[c].msg \in {"1", "2", "3", "4"} THEN Pan(camera, rdl[c].msg) ELSE camera
  /\ rdpc' = [rdpc EXCEPT ![c] = "reset"]
  /\ UNCHANGED <<mainpc, mu, frameId, stop, closed, chans, sceneFrame, bgpc, bgl,
                 rdl, conn, httppc, httpl, msgs, unusedMainGo>>

\* rendererObj.reset(): Lock; close(r.stop); r.stop = make(chan bool, 1);
\* r.frame = newFrame(); r.frameId += 1; Unlock
MainGoReset(c) ==
  /\ rdpc[c] = "reset" /\ mu = Free
  /\ closed' = closed \cup {stop}
  /\ stop' = chans + 1
  /\ chans' = chans + 1
  /\ sceneFrame' = newFrame
  /\ frameId' = frameId + 1
  /\ rdpc' = [rdpc EXCEPT ![c] = "read"]
  /\ rdl' = [rdl EXCEPT ![c] = RdL0]
  /\ UNCHANGED <<mainpc, mu, camera, bgpc, bgl, conn, httppc, httpl, msgs, unusedMainGo>>

\* frame(): a request for /frame.png; Encode(w): r.mu.Lock(); defer Unlock
MainGoEncodeLock ==
  /\ mainpc = "serving" /\ httppc = "idle" /\ mu = Free
  /\ mu' = Http
  /\ httppc' = "png"
  /\ UNCHANGED <<mainpc, frameId, stop, closed, chans, sceneFrame, camera, bgpc, bgl,
                 rdpc, rdl, conn, httpl, msgs, unusedMainGo>>

\* return png.Encode(w, tracer.NewPPM(r.frame)): the image is encoded and
\* written to the response with the lock held; then the deferred Unlock.
MainGoEncodeWrite ==
  /\ httppc = "png" /\ mu = Http
  /\ httpl' = [httpl EXCEPT !.frame = sceneFrame]
  /\ mu' = Free
  /\ httppc' = "idle"
  /\ UNCHANGED <<mainpc, frameId, stop, closed, chans, sceneFrame, camera, bgpc, bgl,
                 rdpc, rdl, conn, msgs, unusedMainGo>>

NextMainGo ==
  \/ MainGoServe
  \/ MainGoRenderCapture \/ MainGoRenderCall \/ MainGoRenderMerge
  \/ MainGoEncodeLock \/ MainGoEncodeWrite
  \/ \E c \in Conns :
       \/ MainGoUpgrade(c) \/ MainGoRead(c) \/ MainGoSwitch(c) \/ MainGoReset(c)
       \/ MainGoPeerClose(c) \/ MainGoReadError(c)

SpecMainGo == InitMainGo /\ [][NextMainGo]_vars

\* ------------------------------------------------------------- vocabulary
\* The messages of the wire protocol: "1".."4", and "mousemove <x> <y>" and
\* "mouseclick <x> <y>" with decimal x and y.
Numerals == {ToString(n) : n \in 0..MaxPixel}

PanMessages == {"1", "2", "3", "4"}

PointerMessages ==
  {Join(p) : p \in {q \in Parts : /\ Len(q) = 3
                                  /\ q[1] \in {"mousemove", "mouseclick"}
                                  /\ q[2] \in Numerals /\ q[3] \in Numerals}}

\* The reader of connection c takes a step.
ReaderStep(c) == rdpc'[c] # rdpc[c]

\* The positions of a reader inside renderGUI after its capture.
InRenderGUI == {"guiHovered", "guiHoveredEdges", "guiSelected", "guiSelectedEdges", "guiInstall"}

\* The positions from which a task's next step is a critical section: the
\* step starts at an r.mu.Lock() and ends at its Unlock.
LockedBg == {"render", "rendering"}

LockedRd == {"reset", "mousemoveSet", "mouseclickSet", "renderGUI", "guiInstall"}

\* The positions at which a task is inside a call into the engine.
EngineBg == {"call", "rendering"}

EngineRd == {"mousemove", "mouseclick", "guiHoveredEdges", "guiSelectedEdges"}

\* ------------------------------------------------------------------ claims
\* C1: the live base buffer holds contributions only of passes that
\* captured the live epoch: a pass that captured an earlier epoch is
\* discarded at its completion, however many resets came in between.
C1_NoStaleMerge == \A pass \in sceneFrame : pass.epoch = frameId

\* C1 witness: a sample pass is in flight that two resets have overtaken.
C1_Witness == bgpc = "rendering" /\ frameId >= bgl.frameId + 2

\* C2: a reset that a pan message triggers replaces both buffers by zeroed
\* ones and adds exactly 1 to the epoch, in one step under the lock; every
\* pan message leads to that reset, and the epoch changes in no other step.
C2_PanResets ==
  [][ /\ \A c \in Conns :
           /\ (rdpc[c] = "pan" /\ ReaderStep(c)) => rdpc'[c] = "reset"
           /\ (rdpc[c] = "reset" /\ ReaderStep(c) /\ rdl[c].msg \in PanMessages) =>
                /\ mu = Free
                /\ frameId' = frameId + 1
                /\ sceneFrame' = {} /\ guiFrame' = {}
      /\ frameId' # frameId => \E c \in Conns : rdpc[c] = "reset" /\ ReaderStep(c)
    ]_vars

\* C2 witness: a reset has happened while a sample pass and an overlay pass
\* were in flight.
C2_Witness ==
  /\ frameId = 1 /\ sceneFrame = {} /\ guiFrame = {}
  /\ bgpc = "rendering" /\ bgl.frameId = 0
  /\ \E c \in Conns : rdpc[c] \in InRenderGUI /\ rdl[c].frameId = 0

\* C3: no step of a reader that is handling a well-formed pointer message
\* changes the epoch, the cancellation signal or the base buffer.
C3_PointerKeepsEpoch ==
  [][ \A c \in Conns :
        (ReaderStep(c) /\ rdl[c].msg \in PointerMessages) =>
          /\ frameId' = frameId
          /\ stop' = stop /\ closed' = closed
          /\ sceneFrame' = sceneFrame
    ]_vars

\* C3 witness: a pointer message has been handled to its end, its overlay is
\* installed, and the base buffer still holds a merged pass.
C3_Witness ==
  \E c \in Conns :
    /\ rdpc[c] = "continue" /\ rdl[c].msg \in PointerMessages
    /\ guiFrame # {} /\ sceneFrame # {}

\* C7: the frame an Encode composes holds contributions of one epoch only.
C7_EncodeOneEpoch ==
  \A c \in Conns :
    pubpc[c] = "write" => \A s, t \in publ[c].frame : s.epoch = t.epoch

\* C7 witness: after a reset, an Encode has composed a frame that holds
\* both a merged pass and the edges of an overlay.
C7_Witness ==
  \E c \in Conns :
    /\ pubpc[c] = "write" /\ frameId >= 1
    /\ \E s, t \in publ[c].frame : "color" \in DOMAIN s /\ "color" \notin DOMAIN t

\* C8: the locked switch of mousemove sets hovered to the node its hit test
\* found, or clears it when the test found none, and leaves selected alone;
\* mouseclick does the same with selected and leaves hovered alone.
C8_HandlesFollowHit ==
  [][ \A c \in Conns :
        /\ (rdpc[c] = "mousemoveSet" /\ ReaderStep(c)) =>
             /\ hovered' = (IF rdl[c].hr.Hit THEN rdl[c].hr.BVHNode ELSE Nil)
             /\ selected' = selected
        /\ (rdpc[c] = "mouseclickSet" /\ ReaderStep(c)) =>
             /\ selected' = (IF rdl[c].hr.Hit THEN rdl[c].hr.BVHNode ELSE Nil)
             /\ hovered' = hovered
        /\ (rdpc[c] \in {"mousemove", "mouseclick"} /\ ReaderStep(c) /\ rdpc'[c] # "done") =>
             rdl'[c].hr = Hit(camera, rdl[c].x, rdl[c].y)
    ]_vars

\* C8 witness: a hover has been cleared by a miss while a selection stays.
C8_Witness ==
  \E c \in Conns :
    /\ rdpc[c] = "renderGUI" /\ rdl[c].msg = "mousemove 2 0"
    /\ hovered = Nil /\ selected = "o1"

\* C5: a connection whose read or write failed takes down its own reader
\* and publisher only: the process, and with it the sample loop and the
\* tasks of every other connection, is never ended by the publisher of a
\* connection.
C5_IoFailureConfined == \A c \in Conns : crashed # PanicIn(Pub(c))

\* C6: when loadScene has returned an error (the scene is still unset after
\* it), main neither starts the sample loop nor serves.
C6_NoServeWithoutScene ==
  (mainpc # "loadScene" /\ scene = Nil) => (mainpc # "serving" /\ bgpc = "idle")

\* C9: a round of the publisher that took e before its sleep is followed by
\* a sleep of at least max(0, 200 ms - e), so that the next round starts no
\* sooner than 200 ms after this one started.  (One connection has one
\* publisher, which does one thing at a time: its pushes cannot overlap.)
C9_PushesApart ==
  \A c \in Conns :
    clk[c].gap # 0 =>
      /\ clk[c].gap - clk[c].elapsed >= Max(0, TargetMs * Millisecond - clk[c].elapsed)
      /\ clk[c].gap >= TargetMs * Millisecond

\* C9 witness: a round whose encode and push took less than a millisecond
\* short of 200 ms has ended, and so has its sleep.
C9_Witness ==
  \E c \in Conns :
    /\ pubpc[c] = "Encode" /\ clk[c].elapsed = 199999
    /\ clk[c].gap = 200999

\* C10: under fair scheduling every task that waits for the lock gets it,
\* and once the clients have sent their last message and its reset is done,
\* a pass that captured the final epoch is eventually merged into the base
\* buffer.
C10_ResetsNeverDeadlock ==
  /\ (bgpc = "render") ~> (bgpc = "call")
  /\ (bgpc = "rendering") ~> (bgpc = "render")
  /\ \A c \in Conns :
       /\ (rdpc[c] = "reset") ~> (rdpc[c] = "read")
       /\ (pubpc[c] = "Encode") ~> (pubpc[c] = "write")
  /\ (msgs = MaxMsgs /\ \A c \in Conns : rdpc[c] \notin {"pan", "reset"})
       ~> (\E pass \in sceneFrame : pass.epoch = frameId)

\* C10 witness: after as many resets as there were messages, a pass of the
\* final epoch is in the base buffer.
C10_Witness ==
  /\ msgs = MaxMsgs /\ frameId = MaxMsgs
  /\ \E pass \in sceneFrame : pass.epoch = frameId

\* C4: no step of a ws handler that is handling a message outside the
\* vocabulary changes the epoch, a buffer, the cancellation signal, the
\* camera or a handle, and the handler goes on to read the next message.
C4_UnknownIgnored ==
  [][ \A c \in Conns :
        (ReaderStep(c) /\ rdl[c].msg # "" /\ rdl[c].msg \notin PanMessages \cup PointerMessages) =>
          /\ frameId' = frameId
          /\ sceneFrame' = sceneFrame /\ guiFrame' = guiFrame
          /\ stop' = stop /\ closed' = closed
          /\ camera' = camera
          /\ hovered' = hovered /\ selected' = selected
          /\ rdpc'[c] # "done"
    ]_vars

\* C11: once the tasks run, the camera is written only in a critical
\* section, and a sample pass takes its camera, scene and signal in the
\* critical section in which it captures the epoch.
C11_FieldsUnderLock ==
  [][ mainpc = "serving" =>
        /\ camera' # camera => \E c \in Conns : ReaderStep(c) /\ rdpc[c] \in LockedRd
        /\ (bgl'.pass # bgl.pass /\ bgl'.pass # NoPass) => bgpc \in LockedBg
    ]_vars

\* C12: a task that is inside a call into the engine (tracer.Render of a
\* sample pass or an overlay pass, the hit test of a pointer command) does
\* not hold the lock.
C12_NoLockInEngine ==
  /\ bgpc \in EngineBg => mu # Bg
  /\ \A c \in Conns : rdpc[c] \in EngineRd => mu # Rd(c)

\* C12 witness: a reset has gone through while a sample pass and an overlay
\* pass were both inside the engine.
C12_Witness ==
  /\ bgpc = "rendering" /\ frameId > bgl.frameId
  /\ \E c \in Conns : rdpc[c] = "guiSelectedEdges" /\ frameId > rdl[c].frameId

\* C13: a task that is encoding the image or writing it out, in the /ws
\* publisher or in the /frame.png handler, does not hold the lock.
C13_EncodeReleasesLock ==
  /\ httppc \in {"png", "write"} => mu # Http
  /\ \A c \in Conns : pubpc[c] = "write" => mu # Pub(c)

\* C14: the last step of an overlay pass that captured epoch E installs
\* its frame as the overlay buffer if the epoch is still E, and leaves the
\* overlay buffer as it is if a reset has overtaken the pass.
C14_OverlayGuard ==
  [][ \A c \in Conns :
        (rdpc[c] = "guiInstall" /\ ReaderStep(c)) =>
          guiFrame' = (IF frameId = rdl[c].frameId THEN rdl[c].guiFrame ELSE guiFrame)
    ]_vars

\* C14 witness: an overlay pass with edges to install has been overtaken by
\* a reset, and the overlay buffer of the new epoch is zeroed.
C14_Witness ==
  \E c \in Conns :
    /\ rdpc[c] = "guiInstall" /\ rdl[c].frameId < frameId
    /\ rdl[c].guiFrame # {} /\ guiFrame = {}

\* C15: after every step, of the signals made so far exactly one is not
\* cancelled, it is the one r.stop refers to and the one made last; a step that installs a new
\* signal cancels the one that was live, which was not cancelled before,
\* and the new one was never in use; nothing else cancels a signal.
C15_OneLiveSignal ==
  [][ /\ stop' = chans' /\ closed' = (1..chans') \ {stop'}
      /\ stop' # stop =>
           /\ stop \notin closed /\ closed' = closed \cup {stop}
           /\ stop' \notin 1..chans
      /\ closed' # closed => stop' # stop
      /\ \A c \in Conns : (rdpc[c] = "reset" /\ ReaderStep(c)) => stop' # stop
    ]_vars

\* C15 witness: two resets have happened, each cancelled its signal.
C15_Witness == chans = 3 /\ stop = 3 /\ closed = {1, 2}

\* The signal of an epoch: newRenderer makes signal 1 for epoch 0, and every
\* reset makes the next signal for the next epoch.
SignalOf(epoch) == epoch + 1

\* C16: the signal a sample pass renders with is the signal of the epoch
\* the pass captured, so a pass in flight that a reset has made stale
\* renders with a cancelled signal.
C16_PassSignalOfEpoch ==
  bgpc = "rendering" =>
    /\ bgl.pass.sig = SignalOf(bgl.pass.epoch)
    /\ bgl.frameId # frameId => bgl.pass.sig \in closed

\* C17: all passes merged into the live base buffer were rendered with one
\* and the same camera position.
C17_OneCameraPerBuffer == \A s, t \in sceneFrame : s.cam = t.cam

\* C18: a sample pass that is merged into the base buffer rendered with a
\* signal that is not cancelled at its merge; a signal once cancelled stays
\* cancelled, so it was not cancelled at any time of the engine call.
C18_NoCancelledPassMerged ==
  [][ /\ (bgpc = "rendering" /\ bgpc' = "render" /\ frameId = bgl.frameId) =>
           /\ bgl.pass.sig \notin closed
           /\ sceneFrame' = Avg(sceneFrame, [epoch |-> bgl.pass.epoch, cam |-> bgl.pass.cam])
      /\ sceneFrame' \notin {sceneFrame, newFrame} =>
           bgpc = "rendering" /\ bgl.pass.sig \notin closed
      /\ closed \subseteq closed'
    ]_vars

\* C18 witness: a pass that started after a reset is in the base buffer.
C18_Witness ==
  /\ closed # {} /\ bgpc = "render"
  /\ \E pass \in sceneFrame : pass.epoch = frameId /\ pass.epoch >= 1

\* The positions of a reader inside mousemove or mouseclick: a pointer
\* command, and with it an overlay pass, is in progress.
InPointer ==
  {"mousemove", "mousemoveSet", "mouseclick", "mouseclickSet", "renderGUI"} \cup InRenderGUI

\* C19: whenever no pointer command is in progress the overlay buffer holds
\* the edges of the hovered and the selected node and nothing else; it is
\* empty exactly when no node is hovered and none selected.
C19_OverlayShowsHandles ==
  (\A c \in Conns : rdpc[c] \notin InPointer) =>
    /\ {edges.node : edges \in guiFrame} = {hovered, selected} \ {Nil}
    /\ guiFrame = {} <=> (hovered = Nil /\ selected = Nil)

====
